---- MODULE Spec2Model ----
(***************************************************************************)
(* The player window of PyQt5-MusicPlayer, in its two variants:            *)
(*   "main"   : src/main.py   (MusicPlayerWindow, camelCase handlers)      *)
(*   "player" : src/player.py (MusicPlayerWindow, snake_case handlers)     *)
(* One window is opened on a non-empty track list.  Every action is one    *)
(* Qt signal handler (or one step of the audio backend), run to its end.   *)
(* A handler is a function from the window's state to its state after the  *)
(* handler; the state is the record Win below.                             *)
(*                                                                         *)
(* Python indices are kept as they are (0-based, -1 for "none"); a TLA+    *)
(* sequence s holds Python's s[i] at s[i + 1].                             *)
(***************************************************************************)
EXTENDS Integers, Sequences, FiniteSets, TLC

\* ------------------------------------------------------------------ bounds

\* Longest track list a window is opened on.
MaxSongs == 2

\* Duration of every track, in whole seconds.
MaxTime == 1

\* Most entries in a directory the library scan is run on.
MaxEntries == 2

\* ------------------------------------------------------- program constants

\* QSlider range of the progress slider before any track is loaded.
InitialSliderMax == 100

\* Value the volume slider is constructed with.
InitialVolume == 100

\* ------------------------------------------------------------ the library

\* The audio files on disk: file k is FileStem[k] + "." + FileExt[k].
FileStem == <<"b", "a", "c", "d", "a", "a", "A", "e">>
FileExt == <<"mp3", "wav", "MP3", "wav", "wav", "mp3", "mp3", "WAV">>

\* os.listdir of the two directories a window can be opened on.  The first
\* holds b.mp3, a.wav, c.MP3, d.wav; the second holds a.wav, a.mp3, A.mp3,
\* e.WAV, whose first three files share a row text up to letter case.
Listings == << <<1, 2, 3, 4>>, <<5, 6, 7, 8>> >>

\* str.lower() on the strings that occur in file names.
Lower(s) ==
    CASE s = "A" -> "a"
      [] s = "MP3" -> "mp3"
      [] s = "WAV" -> "wav"
      [] OTHER -> s

\* A track is a file of the listing, named by its position.
Tracks == 1..Len(FileStem)

\* os.path.basename(song).rsplit('.', 1)[0]: the row text of a track.
DisplayName(t) == FileStem[t]

\* The positions the user can put the progress slider at, and the volumes
\* the user can choose.
SeekTargets == 0..MaxTime
Volumes == {50, 100}

\* media_player.source of a player with nothing queued (None).
NoSource == 0

VARIABLES
    variant,               \* "main" | "player": which file's window this is
    songs,                 \* self.songs
    song_list,             \* self.song_list: the rows' texts, in order
    highlight,             \* rows whose background is the highlight colour
    current_song_index,    \* self.current_song_index
    is_paused,             \* self.is_paused
    seeking,               \* self.seeking
    played_first_song,     \* self.played_first_song
    media_player,          \* self.media_player: the pyglet Player
    pause_button,          \* text of the play/pause button
    progress_slider,       \* [value, maximum] of the progress slider
    current_time_label,    \* <<minutes, seconds>> shown as mm:ss
    total_duration_label,  \* <<minutes, seconds>> shown as mm:ss
    volume_slider,         \* value of the volume slider
    raised,                \* exception that left the latest handler ("none")
    scan                   \* the library scan: its arguments, the disk, its result

vars == <<variant, songs, song_list, highlight,
          current_song_index, is_paused, seeking, played_first_song,
          media_player, pause_button, progress_slider, current_time_label,
          total_duration_label, volume_slider, raised, scan>>

\* The window's mutable state as one value, so that a handler that calls
\* other methods is the composition of their effects.  cmds is the log of
\* the calls the handler makes to the backend, in order: an output of
\* the handler, empty when it is entered and not kept in the state.
Win ==
    [songs |-> songs, song_list |-> song_list, highlight |-> highlight,
     current_song_index |-> current_song_index,
     is_paused |-> is_paused, seeking |-> seeking,
     played_first_song |-> played_first_song, media_player |-> media_player,
     pause_button |-> pause_button, progress_slider |-> progress_slider,
     current_time_label |-> current_time_label,
     total_duration_label |-> total_duration_label,
     volume_slider |-> volume_slider, cmds |-> <<>>, raised |-> raised]

\* The next state is the window w a handler returned.
Becomes(w) ==
    /\ songs' = w.songs
    /\ song_list' = w.song_list
    /\ highlight' = w.highlight
    /\ current_song_index' = w.current_song_index
    /\ is_paused' = w.is_paused
    /\ seeking' = w.seeking
    /\ played_first_song' = w.played_first_song
    /\ media_player' = w.media_player
    /\ pause_button' = w.pause_button
    /\ progress_slider' = w.progress_slider
    /\ current_time_label' = w.current_time_label
    /\ total_duration_label' = w.total_duration_label
    /\ volume_slider' = w.volume_slider
    /\ raised' = w.raised
    /\ UNCHANGED <<variant, scan>>

\* ------------------------------------------------------ the pyglet Player

\* media.Player(): nothing queued, not playing, volume 1.0 (kept in
\* percent).  eos: the source ran out and the player's on_eos event is
\* posted but not yet dispatched.
NewPlayer ==
    [source |-> NoSource, playing |-> FALSE, time |-> 0,
     volume |-> 100, eos |-> FALSE]

\* Record a call to the backend.
Call(w, op, arg) == [w EXCEPT !.cmds = Append(@, <<op, arg>>)]

\* self.media_player.pause()
PlayerPause(w) ==
    Call([w EXCEPT !.media_player.playing = FALSE], "pause", 0)

\* self.media_player.play(): Player._set_playing(True) sets the flag
\* whether or not a source is queued.
PlayerPlay(w) ==
    Call([w EXCEPT !.media_player.playing = TRUE], "play", 0)

\* self.media_player = media.Player()
PlayerNew(w) ==
    Call([w EXCEPT !.media_player = NewPlayer], "Player", 0)

\* self.media_player.queue(source): the first queued source is current.
PlayerQueue(w, song) ==
    Call([w EXCEPT !.media_player.source =
                      IF @ = NoSource THEN song ELSE @], "queue", song)

\* self.media_player.seek(position): nothing without a source.
PlayerSeek(w, position) ==
    Call([w EXCEPT !.media_player.time =
                      IF w.media_player.source = NoSource THEN @
                      ELSE position],
         "seek", position)

\* self.media_player.volume = value / 100.0  (kept in percent)
PlayerSetVolume(w, value) ==
    Call([w EXCEPT !.media_player.volume = value], "volume", value)

\* Player.on_eos, the default handler that runs after the pushed ones:
\* next_source() pauses, rewinds and, the queue being empty, drops the
\* source.
PlayerDefaultOnEos(p) ==
    [p EXCEPT !.playing = FALSE, !.time = 0, !.source = NoSource,
              !.eos = FALSE]

\* --------------------------------------------------------------- helpers

\* format_time / formatTime: minutes and seconds of the mm:ss text.
formatTime(seconds) == <<seconds \div 60, seconds % 60>>

\* list.index: the 0-based position of the first element that is one of
\* wanted, or -1 where Python raises ValueError.
FirstIndex(seq, wanted) ==
    IF \E i \in 1..Len(seq) : seq[i] \in wanted
    THEN (CHOOSE i \in 1..Len(seq) :
              seq[i] \in wanted /\ \A j \in 1..(i - 1) : seq[j] \notin wanted) - 1
    ELSE -1

\* The rows built from a track list (populateSongList, and the loops of
\* shufflePlaylist / shuffle_playlist).
RowsOf(list) == [i \in 1..Len(list) |-> DisplayName(list[i])]

\* All orders random.shuffle can leave the list in.
Shuffles(list) ==
    {p \in [1..Len(list) -> {list[i] : i \in 1..Len(list)}] :
        \A i, j \in 1..Len(list) : i # j => p[i] # p[j]}

\* updateCurrentSongHighlight / update_current_indicator: every row's
\* background is reset, then the row at current_song_index is coloured.
updateCurrentSongHighlight(w) ==
    IF 0 <= w.current_song_index /\ w.current_song_index < Len(w.song_list)
    THEN [w EXCEPT !.highlight = {w.current_song_index}]
    ELSE [w EXCEPT !.highlight = {}]

\* updateSongProgress, and the "Set up progress bar" lines of play_song.
updateSongProgress(w, duration) ==
    [w EXCEPT !.progress_slider = [value |-> 0, maximum |-> duration],
              !.total_duration_label = formatTime(duration),
              !.current_time_label = formatTime(0)]

\* ------------------------------------------------------- the library scan
\* A file name is the sequence of its characters; a path is the sequence
\* of its components, "/" first when it is absolute.

\* str.lower() on the characters that occur in the names.
LowerChar(c) ==
    CASE c = "A" -> "a"
      [] c = "M" -> "m"
      [] c = "P" -> "p"
      [] c = "V" -> "v"
      [] c = "W" -> "w"
      [] OTHER -> c

str_lower(name) == [i \in 1..Len(name) |-> LowerChar(name[i])]

\* str.endswith(tuple of suffixes)
endswith(name, suffixes) ==
    \E x \in suffixes :
        /\ Len(x) <= Len(name)
        /\ SubSeq(name, Len(name) - Len(x) + 1, Len(name)) = x

\* os.path.join(a, b): an absolute b discards a.
path_join(a, b) == IF Len(b) > 0 /\ b[1] = "/" THEN b ELSE a \o b

\* get_music_folder: os.path.join(Path.home(), "Music")
get_music_folder == path_join(<<"/", "home">>, <<"Music">>)

MUSIC_FOLDER_NAME == <<"YtSongs">>

SUPPORTED_FORMATS ==
    {<<".", "m", "p", "3">>, <<".", "w", "a", "v">>,
     <<".", "M", "P", "3">>, <<".", "W", "A", "V">>}

\* get_playlist_path (player.py)
get_playlist_path(playlist) ==
    path_join(path_join(get_music_folder, <<"YtSongs">>), playlist)

\* What a scan returns: the list, or the exception that left it.
Returned(list) == [songs |-> list, raised |-> "none"]
Raised(exception) == [songs |-> <<>>, raised |-> exception]

\* os.listdir(path) on the disk d = [kind, entries]: the entries of a
\* directory; NotADirectoryError on a path that exists as a file.
\* os.path.exists(path) is d.kind # "absent".

\* Mutant: get_songs_list of main.py that compares without lower().
get_songs_list_CaseSensitive(music_folder, d) ==
    LET base_dir == IF music_folder # <<>> THEN music_folder
                    ELSE get_music_folder
        song_dir == path_join(base_dir, MUSIC_FOLDER_NAME)
        found == SelectSeq(d.entries,
                     LAMBDA f : endswith(f, {<<".", "m", "p", "3">>,
                                             <<".", "w", "a", "v">>}))
    IN  IF d.kind = "absent" THEN Returned(<<>>)
        ELSE IF d.kind = "file" THEN Raised("NotADirectoryError")
        ELSE Returned([i \in 1..Len(found) |-> path_join(song_dir, <<found[i]>>)])

\* get_songs_list of main.py; music_folder <<>> is None.
get_songs_list(music_folder, d) ==
    LET base_dir == IF music_folder # <<>> THEN music_folder
                    ELSE get_music_folder
        song_dir == path_join(base_dir, MUSIC_FOLDER_NAME)
        found == SelectSeq(d.entries,
                     LAMBDA f : endswith(str_lower(f), SUPPORTED_FORMATS))
    IN  IF d.kind = "absent" THEN Returned(<<>>)
        ELSE IF d.kind = "file" THEN Raised("NotADirectoryError")
        ELSE Returned([i \in 1..Len(found) |-> path_join(song_dir, <<found[i]>>)])

\* The loop of player.py's get_songs_list over the rest of the listing.
RECURSIVE append_songs(_, _, _)
append_songs(songs_so_far, playlist_dir, rest) ==
    IF rest = <<>> THEN songs_so_far
    ELSE LET file == Head(rest)
         IN  IF endswith(str_lower(file),
                         {<<".", "m", "p", "3">>, <<".", "w", "a", "v">>})
             THEN append_songs(Append(songs_so_far,
                                      path_join(playlist_dir, <<file>>)),
                               playlist_dir, Tail(rest))
             ELSE append_songs(songs_so_far, playlist_dir, Tail(rest))

\* get_songs_list of player.py (its music_folder argument is not used).
get_songs_list_playlist(playlist, d) ==
    LET playlist_dir == get_playlist_path(playlist)
    IN  IF d.kind = "absent" THEN Returned(<<>>)
        ELSE IF d.kind = "file" THEN Raised("NotADirectoryError")
        ELSE Returned(append_songs(<<>>, playlist_dir, d.entries))

\* ----------------------------------------------------------- src/main.py
\* In the handlers below, loads says whether the media.load call the
\* handler makes (it makes at most one) returns a source or raises.

\* playSong: a failed load is caught and the method returns.
playSong(w, song, loads) ==
    IF ~loads
    THEN Call(w, "load", song)
    ELSE LET a == Call([w EXCEPT !.played_first_song = TRUE], "load", song)
             b == PlayerPlay(PlayerQueue(PlayerNew(PlayerPause(a)), song))
             c == [b EXCEPT !.is_paused = FALSE, !.pause_button = "Pause"]
         IN  updateCurrentSongHighlight(updateSongProgress(c, MaxTime))

\* handleSongClick(item): the row's stored path is looked up in songs.
handleSongClick(w, row, loads) ==
    LET song_path == w.songs[row + 1]
        index == FirstIndex(w.songs, {song_path})
    IN  playSong([w EXCEPT !.current_song_index = index], song_path, loads)

\* playNextSong
playNextSong(w, loads) ==
    IF Len(w.songs) = 0
    THEN w
    ELSE LET new_index == (w.current_song_index + 1) % Len(w.songs)
         IN  playSong([w EXCEPT !.current_song_index = new_index],
                      w.songs[new_index + 1], loads)

\* Mutant: playFirstSong without "self.current_song_index = 0".
playFirstSong_KeepsIndex(w, loads) ==
    IF Len(w.songs) > 0
    THEN playSong(w, w.songs[1], loads)
    ELSE w

\* playFirstSong
playFirstSong(w, loads) ==
    IF Len(w.songs) > 0
    THEN playSong([w EXCEPT !.current_song_index = 0], w.songs[1], loads)
    ELSE w

\* togglePlayback
togglePlayback(w, loads) ==
    IF ~w.played_first_song
    THEN playFirstSong(w, loads)
    ELSE IF w.media_player.playing
         THEN [PlayerPause(w) EXCEPT !.is_paused = TRUE,
                                     !.pause_button = "Resume"]
         ELSE [PlayerPlay(w) EXCEPT !.is_paused = FALSE,
                                    !.pause_button = "Pause"]

\* Mutant: shufflePlaylist without "self.current_song_index = 0".
shufflePlaylist_KeepsIndex(w, order, loads) ==
    LET a == [w EXCEPT !.songs = order, !.song_list = RowsOf(order),
                       !.highlight = {}]
    IN  playSong(a, a.songs[1], loads)

\* shufflePlaylist, with the order random.shuffle produced.
shufflePlaylist(w, order, loads) ==
    LET a == [w EXCEPT !.songs = order, !.song_list = RowsOf(order),
                       !.highlight = {}]
    IN  playSong([a EXCEPT !.current_song_index = 0], a.songs[1], loads)

\* handleSongEnd, the pushed on_eos handler; Player.on_eos then runs on
\* the player that posted the event, if it is still self.media_player.
handleSongEnd(w, loads) ==
    LET a == playNextSong([w EXCEPT !.progress_slider.value = 0], loads)
    IN  IF a.media_player.eos
        THEN [a EXCEPT !.media_player = PlayerDefaultOnEos(@)]
        ELSE a

\* updatePlaybackState: platform_event_loop.step dispatches a posted
\* on_eos, then the progress controls follow the player.
updatePlaybackState(w, loads) ==
    LET a == IF w.media_player.eos THEN handleSongEnd(w, loads) ELSE w
    IN  IF a.media_player.source # NoSource /\ ~a.seeking
        THEN [a EXCEPT !.progress_slider.value = a.media_player.time,
                       !.current_time_label = formatTime(a.media_player.time)]
        ELSE a

\* Mutant: handleSeekRelease that seeks only when the slider was moved
\* away from the player's position.
handleSeekRelease_SkipsSamePosition(w) ==
    LET a == [w EXCEPT !.seeking = FALSE]
    IN  IF a.media_player.source # NoSource
           /\ a.progress_slider.value # a.media_player.time
        THEN PlayerSeek(a, a.progress_slider.value)
        ELSE a

\* handleSeekRelease
handleSeekRelease(w) ==
    LET a == [w EXCEPT !.seeking = FALSE]
    IN  IF a.media_player.source # NoSource
        THEN PlayerSeek(a, a.progress_slider.value)
        ELSE a

\* updateVolume
updateVolume(w, value) ==
    PlayerSetVolume([w EXCEPT !.volume_slider = value], value)

\* --------------------------------------------------------- src/player.py

\* play_song: media.load is called after the player was replaced and is
\* not guarded; its exception leaves the method.
play_song(w, song, loads) ==
    LET a == PlayerNew(PlayerPause([w EXCEPT !.played_first_song = TRUE]))
        b == Call(a, "load", song)
    IN  IF ~loads
        THEN [b EXCEPT !.raised = "MediaException"]
        ELSE LET c == PlayerPlay(PlayerQueue(b, song))
                 d == [c EXCEPT !.is_paused = FALSE, !.pause_button = "Pause"]
             IN  updateCurrentSongHighlight(updateSongProgress(d, MaxTime))

\* play_first_song
play_first_song(w, loads) ==
    IF Len(w.songs) > 0
    THEN play_song([w EXCEPT !.current_song_index = 0], w.songs[1], loads)
    ELSE w

\* on_song_clicked(item): the row's text, lower-cased, with ".mp3" and
\* then ".wav" appended, is looked up among the lower-cased paths.  The
\* except ValueError around play_song does not catch a failed load.
on_song_clicked(w, row, loads) ==
    LET song_name == Lower(w.song_list[row + 1])
        mp3 == FirstIndex(w.songs, {s \in Tracks : Lower(FileStem[s]) = song_name
                                                    /\ Lower(FileExt[s]) = "mp3"})
        wav == FirstIndex(w.songs, {s \in Tracks : Lower(FileStem[s]) = song_name
                                                    /\ Lower(FileExt[s]) = "wav"})
        song_index == IF mp3 # -1 THEN mp3 ELSE wav
    IN  IF song_index = -1
        THEN [w EXCEPT !.raised = "ValueError"]
        ELSE play_song([w EXCEPT !.current_song_index = song_index],
                       w.songs[song_index + 1], loads)

\* Mutant: toggle_pause whose resume branch leaves the label as it is.
toggle_pause_KeepsLabel(w, loads) ==
    IF w.media_player.playing
    THEN [PlayerPause(w) EXCEPT !.is_paused = TRUE, !.pause_button = "Resume"]
    ELSE IF ~w.played_first_song
         THEN LET a == play_first_song(w, loads)
              IN  IF a.raised # "none" THEN a
                  ELSE [a EXCEPT !.is_paused = FALSE,
                                 !.pause_button = "Pause"]
         ELSE [PlayerPlay(w) EXCEPT !.is_paused = FALSE]

\* toggle_pause: the two assignments after play_first_song are skipped
\* when it raised.
toggle_pause(w, loads) ==
    IF w.media_player.playing
    THEN [PlayerPause(w) EXCEPT !.is_paused = TRUE, !.pause_button = "Resume"]
    ELSE IF ~w.played_first_song
         THEN LET a == play_first_song(w, loads)
              IN  IF a.raised # "none" THEN a
                  ELSE [a EXCEPT !.is_paused = FALSE,
                                 !.pause_button = "Pause"]
         ELSE [PlayerPlay(w) EXCEPT !.is_paused = FALSE,
                                    !.pause_button = "Pause"]

\* Mutant: skip_song that stays on the last track instead of wrapping.
skip_song_StopsAtEnd(w, loads) ==
    IF w.current_song_index = -1
    THEN w
    ELSE LET old_index == w.current_song_index
             a == IF w.current_song_index < Len(w.songs) - 1
                  THEN [w EXCEPT !.current_song_index = @ + 1]
                  ELSE w
         IN  IF old_index # a.current_song_index
             THEN play_song(a, a.songs[a.current_song_index + 1], loads)
             ELSE a

\* skip_song
skip_song(w, loads) ==
    IF w.current_song_index = -1
    THEN w
    ELSE LET old_index == w.current_song_index
             a == IF w.current_song_index < Len(w.songs) - 1
                  THEN [w EXCEPT !.current_song_index = @ + 1]
                  ELSE [w EXCEPT !.current_song_index = 0]
         IN  IF old_index # a.current_song_index
             THEN play_song(a, a.songs[a.current_song_index + 1], loads)
             ELSE a

\* Mutant: shuffle_playlist that starts the first track only on a session
\* that has not played yet, and otherwise leaves the player as it is.
shuffle_playlist_KeepsPlaying(w, order, loads) ==
    LET a == [w EXCEPT !.songs = order, !.song_list = RowsOf(order),
                       !.highlight = {}]
    IN  IF w.played_first_song
        THEN [a EXCEPT !.current_song_index = 0]
        ELSE play_first_song([a EXCEPT !.current_song_index = 0], loads)

\* shuffle_playlist, with the order random.shuffle produced.
shuffle_playlist(w, order, loads) ==
    LET a == [w EXCEPT !.songs = order, !.song_list = RowsOf(order),
                       !.highlight = {}]
    IN  play_first_song([a EXCEPT !.current_song_index = 0], loads)

\* on_eos of play_song, set with @event and pushed again, followed by
\* Player.on_eos on the same player.
on_eos(w) ==
    LET a == [w EXCEPT !.progress_slider.value = 0,
                       !.current_time_label = formatTime(0)]
        b == updateCurrentSongHighlight(a)
    IN  [b EXCEPT !.media_player = PlayerDefaultOnEos(@)]

\* update_pyglet: platform_event_loop.step dispatches a posted on_eos,
\* the progress controls follow a playing player, and a player found
\* stopped without a user pause is taken for a finished track.
update_pyglet(w, loads) ==
    LET a == IF w.media_player.eos THEN on_eos(w) ELSE w
        b == IF a.media_player.source # NoSource /\ a.media_player.playing
                /\ ~a.seeking
             THEN [a EXCEPT !.progress_slider.value = a.media_player.time,
                            !.current_time_label =
                                formatTime(a.media_player.time)]
             ELSE a
    IN  IF ~b.media_player.playing /\ ~b.is_paused
           /\ b.current_song_index # -1
        THEN LET old_index == b.current_song_index
                 c == skip_song(b, loads)
             IN  IF c.raised = "none" /\ old_index # c.current_song_index
                 THEN updateCurrentSongHighlight(c)
                 ELSE c
        ELSE b

\* stop_seeking
stop_seeking(w) ==
    LET a == [w EXCEPT !.seeking = FALSE]
    IN  IF a.media_player.source # NoSource
        THEN PlayerSeek(a, a.progress_slider.value)
        ELSE a

\* set_volume
set_volume(w, value) ==
    PlayerSetVolume([w EXCEPT !.volume_slider = value], value)

\* ------------------------------------------------------------ both files

\* ClickableSlider.mousePressEvent on the progress slider: the value jumps
\* to the pressed position, sliderMoved and sliderPressed follow.  Only
\* player.py connects sliderMoved (update_time_during_seek).
sliderPressed(w, position) ==
    LET a == [w EXCEPT !.progress_slider.value = position, !.seeking = TRUE]
    IN  IF variant = "player"
        THEN [a EXCEPT !.current_time_label = formatTime(position)]
        ELSE a

\* The handle is dragged to another position while the button is down.
sliderMoved(w, position) ==
    LET a == [w EXCEPT !.progress_slider.value = position]
    IN  IF variant = "player"
        THEN [a EXCEPT !.current_time_label = formatTime(position)]
        ELSE a

\* ---------------------------------------------------------------- actions

\* __init__ of either window, on the first files of a directory listing
\* (main() opens no window on an empty list).
Init ==
    /\ variant \in {"main", "player"}
    /\ \E d \in 1..Len(Listings), n \in 1..MaxSongs :
         songs = SubSeq(Listings[d], 1, n)
    /\ song_list = RowsOf(songs)
    /\ highlight = {}
    /\ current_song_index = -1
    /\ is_paused = FALSE
    /\ seeking = FALSE
    /\ played_first_song = FALSE
    /\ media_player = NewPlayer
    /\ pause_button = "Play"
    /\ progress_slider = [value |-> 0, maximum |-> InitialSliderMax]
    /\ current_time_label = formatTime(0)
    /\ total_duration_label = formatTime(0)
    /\ volume_slider = InitialVolume
    /\ raised = "none"
    /\ scan = [phase |-> "window"]

\* An exception that leaves a slot ends the process (PyQt5 aborts on an
\* unhandled exception in a slot): nothing runs after it.
Running == raised = "none"

Rows == 0..(Len(song_list) - 1)

\* What each connected signal does to the window (connectSignals in
\* main.py, "Connect signals" in player.py).
itemClicked(row, loads) ==
    IF variant = "main" THEN handleSongClick(Win, row, loads)
    ELSE on_song_clicked(Win, row, loads)

pauseClicked(loads) ==
    IF variant = "main" THEN togglePlayback(Win, loads)
    ELSE toggle_pause(Win, loads)

skipClicked(loads) ==
    IF variant = "main" THEN playNextSong(Win, loads)
    ELSE skip_song(Win, loads)

shuffleClicked(order, loads) ==
    IF variant = "main" THEN shufflePlaylist(Win, order, loads)
    ELSE shuffle_playlist(Win, order, loads)

valueChanged(value) ==
    IF variant = "main" THEN updateVolume(Win, value)
    ELSE set_volume(Win, value)

sliderReleased ==
    IF variant = "main" THEN handleSeekRelease(Win) ELSE stop_seeking(Win)

\* The 100 ms QTimer: audio_timer (main.py) / timer (player.py).
timeout(loads) ==
    IF variant = "main" THEN updatePlaybackState(Win, loads)
    ELSE update_pyglet(Win, loads)

\* song_list.itemClicked on a row
SongClicked(row, loads) ==
    /\ Running
    /\ Becomes(itemClicked(row, loads))

\* pause_button.clicked
PauseClicked(loads) ==
    /\ Running
    /\ Becomes(pauseClicked(loads))

\* skip_button.clicked
SkipClicked(loads) ==
    /\ Running
    /\ Becomes(skipClicked(loads))

\* shuffle_button.clicked
ShuffleClicked(order, loads) ==
    /\ Running
    /\ Becomes(shuffleClicked(order, loads))

\* volume_slider.valueChanged
VolumeChanged(value) ==
    /\ Running
    /\ value # volume_slider
    /\ Becomes(valueChanged(value))

\* progress_slider.sliderPressed
SeekPressed(position) ==
    /\ Running
    /\ ~seeking
    /\ Becomes(sliderPressed(Win, position))

\* progress_slider.sliderMoved during a drag
SeekMoved(position) ==
    /\ Running
    /\ seeking
    /\ position # progress_slider.value
    /\ Becomes(sliderMoved(Win, position))

\* progress_slider.sliderReleased
SeekReleased ==
    /\ Running
    /\ seeking
    /\ Becomes(sliderReleased)

\* QTimer.timeout
Tick(loads) ==
    /\ Running
    /\ Becomes(timeout(loads))

\* The backend plays on: one more second of the source is played.
Advance ==
    /\ Running
    /\ media_player.playing
    /\ media_player.source # NoSource
    /\ media_player.time < MaxTime
    /\ media_player' = [media_player EXCEPT !.time = @ + 1]
    /\ UNCHANGED <<variant, songs, song_list, highlight,
                   current_song_index, is_paused, seeking, played_first_song,
                   pause_button, progress_slider, current_time_label,
                   total_duration_label, volume_slider, raised, scan>>

\* The source runs out of data: the backend posts the player's on_eos,
\* which the next platform_event_loop.step dispatches.
SourceEnds ==
    /\ Running
    /\ media_player.playing
    /\ media_player.source # NoSource
    /\ media_player.time = MaxTime
    /\ ~media_player.eos
    /\ media_player' = [media_player EXCEPT !.eos = TRUE]
    /\ UNCHANGED <<variant, songs, song_list, highlight,
                   current_song_index, is_paused, seeking, played_first_song,
                   pause_button, progress_slider, current_time_label,
                   total_duration_label, volume_slider, raised, scan>>

\* The handlers that may load a track, under one outcome of media.load.
Handlers(loads) ==
    \/ \E row \in Rows : SongClicked(row, loads)
    \/ PauseClicked(loads)
    \/ SkipClicked(loads)
    \/ \E order \in Shuffles(songs) : ShuffleClicked(order, loads)
    \/ Tick(loads)

\* The handlers that load nothing, and the backend's own steps.
Others ==
    \/ \E value \in Volumes : VolumeChanged(value)
    \/ \E position \in SeekTargets : SeekPressed(position)
    \/ \E position \in SeekTargets : SeekMoved(position)
    \/ SeekReleased
    \/ Advance
    \/ SourceEnds

Next == Handlers(TRUE) \/ Handlers(FALSE) \/ Others

Spec == Init /\ [][Next]_vars

\* A track has run out: its on_eos is posted, or it was dispatched and
\* the player stands stopped on a started session without a user pause.
Stopped == played_first_song /\ ~is_paused /\ ~media_player.playing

EndOfTrack == media_player.eos \/ Stopped

\* The session left to itself at the end of a track: every file loads,
\* and from the moment a track runs out until one plays again the user
\* touches nothing, so that only the timer and the backend act.
UnattendedNext ==
    \/ ~EndOfTrack /\ (\E row \in Rows : SongClicked(row, TRUE))
    \/ ~EndOfTrack /\ PauseClicked(TRUE)
    \/ ~EndOfTrack /\ SkipClicked(TRUE)
    \/ ~EndOfTrack /\ (\E order \in Shuffles(songs) : ShuffleClicked(order, TRUE))
    \/ ~EndOfTrack /\ (\E value \in Volumes : VolumeChanged(value))
    \/ ~EndOfTrack /\ (\E position \in SeekTargets : SeekPressed(position))
    \/ ~EndOfTrack /\ (\E position \in SeekTargets : SeekMoved(position))
    \/ ~EndOfTrack /\ SeekReleased
    \/ Tick(TRUE)
    \/ Advance
    \/ SourceEnds

\* The QTimer fires every 100 ms for as long as the window lives.
UnattendedSpec ==
    Init /\ [][UnattendedNext]_vars /\ WF_vars(Tick(TRUE))

\* ------------------------------------------------ the scan at start-up

\* Names a directory entry can have: a.mp3, b.WAV, c.Mp3, d.txt, the
\* hidden file .wav, and mp3 (no dot, shorter than a suffix).
FileNames ==
    {<<"a", ".", "m", "p", "3">>, <<"b", ".", "W", "A", "V">>,
     <<"c", ".", "M", "p", "3">>, <<"d", ".", "t", "x", "t">>,
     <<".", "w", "a", "v">>, <<"m", "p", "3">>}

\* os.listdir results: up to MaxEntries different names in any order.
DirectoryListings ==
    UNION {{l \in [1..n -> FileNames] :
               \A i, j \in 1..n : i # j => l[i] # l[j]} : n \in 0..MaxEntries}

\* What can be at the scanned path.
Disks ==
    {[kind |-> "absent", entries |-> <<>>], [kind |-> "file", entries |-> <<>>]}
        \cup {[kind |-> "directory", entries |-> l] : l \in DirectoryListings}

\* The music_folder main.py's scan is called with (<<>>: None, as main()
\* does), and the playlist player.py's scan is called with (a playlist
\* name, or the music folder itself, as player.py's main() passes).
ScanArguments ==
    IF variant = "main" THEN {<<>>, <<"/", "mnt", "usb">>}
    ELSE {<<"rock">>, get_music_folder}

\* The process before it scans: the arguments and the disk are fixed, no
\* window exists yet.
ScanInit ==
    /\ variant \in {"main", "player"}
    /\ \E a \in ScanArguments, d \in Disks :
         scan = [phase |-> "start", argument |-> a, disk |-> d,
                 songs |-> <<>>, raised |-> "none"]
    /\ songs = <<>>
    /\ song_list = <<>>
    /\ highlight = {}
    /\ current_song_index = -1
    /\ is_paused = FALSE
    /\ seeking = FALSE
    /\ played_first_song = FALSE
    /\ media_player = NewPlayer
    /\ pause_button = "Play"
    /\ progress_slider = [value |-> 0, maximum |-> InitialSliderMax]
    /\ current_time_label = formatTime(0)
    /\ total_duration_label = formatTime(0)
    /\ volume_slider = InitialVolume
    /\ raised = "none"

\* The scan either file's get_songs_list makes of the disk.
scanned(argument, disk) ==
    IF variant = "main" THEN get_songs_list(argument, disk)
    ELSE get_songs_list_playlist(argument, disk)

\* songs = get_songs_list(...)
Scan ==
    /\ scan.phase = "start"
    /\ LET r == scanned(scan.argument, scan.disk)
       IN  scan' = [scan EXCEPT !.phase = "scanned", !.songs = r.songs,
                                !.raised = r.raised]
    /\ UNCHANGED <<variant, songs, song_list, highlight,
                   current_song_index, is_paused, seeking, played_first_song,
                   media_player, pause_button, progress_slider,
                   current_time_label, total_duration_label, volume_slider,
                   raised>>

ScanNext == Scan

ScanSpec == ScanInit /\ [][ScanNext]_vars

\* ----------------------------------------------------------------- claims

\* The track lists a window can be opened on.
InitialLists ==
    {SubSeq(Listings[d], 1, n) : d \in 1..Len(Listings), n \in 1..MaxSongs}

\* The handler's log holds a call of this name.
Called(w, op) == \E i \in 1..Len(w.cmds) : w.cmds[i][1] = op

\* C1: current_song_index is -1 or a valid index into songs in every
\* reachable state, and it is 0 right after every shuffle, whatever the
\* state shuffled from and whether or not the first track loads.
C1_IndexValid ==
    /\ current_song_index = -1
       \/ (0 <= current_song_index /\ current_song_index < Len(songs))
    /\ Running =>
         \A order \in Shuffles(songs), loads \in BOOLEAN :
             shuffleClicked(order, loads).current_song_index = 0

\* C1 witness: a list of two or more tracks was shuffled out of its listing
\* order, and the index is 0 with the new first track loaded.
C1_Witness ==
    /\ songs \notin InitialLists
    /\ Len(songs) >= 2
    /\ current_song_index = 0
    /\ media_player.source = songs[1]

\* C2 as claimed: a tick during a drag (seeking true) leaves the progress
\* slider's position as it is, end-of-track handling included.
C2_TickKeepsSliderWhileSeeking ==
    [][\A loads \in BOOLEAN :
          (seeking /\ Tick(loads)) =>
              progress_slider'.value = progress_slider.value]_vars

\* C3: a seek release clears seeking and raises nothing; with a source
\* loaded it makes exactly one backend call, seek(slider value), which
\* moves the player there, also when the player is already there; with
\* no source it makes no backend call and leaves the player alone.
C3_SeekRelease ==
    (Running /\ seeking) =>
        LET w == sliderReleased
        IN  /\ ~w.seeking
            /\ w.raised = "none"
            /\ IF media_player.source # NoSource
               THEN /\ w.cmds = << <<"seek", progress_slider.value>> >>
                    /\ w.media_player.time = progress_slider.value
               ELSE /\ w.cmds = <<>>
                    /\ w.media_player = media_player

\* C3 witness: a drag is in progress on a loaded player with the slider at
\* the position the player is already at, so the release seeks to the
\* position it started from.
C3_Witness ==
    /\ seeking
    /\ media_player.source # NoSource
    /\ media_player.time = progress_slider.value
    /\ sliderReleased.cmds = << <<"seek", media_player.time>> >>

\* The windows the handlers that can select a track may return.
Selecting(loads) ==
    {itemClicked(row, loads) : row \in Rows}
        \cup {shuffleClicked(order, loads) : order \in Shuffles(songs)}
        \cup {pauseClicked(loads), skipClicked(loads), timeout(loads)}

\* C4 as claimed: a handler whose media.load raises ends without an
\* exception leaving it and with the index, the flags, the label, the
\* highlight and the backend player as they were when it started.
C4_FailedLoadChangesNothing ==
    [][\A w \in Selecting(FALSE) :
          (Running /\ Called(w, "load") /\ Becomes(w)) =>
              /\ raised' = "none"
              /\ current_song_index' = current_song_index
              /\ is_paused' = is_paused
              /\ played_first_song' = played_first_song
              /\ pause_button' = pause_button
              /\ highlight' = highlight
              /\ media_player' = media_player]_vars

\* b holds the same tracks as a, each as often.
SameTracks(a, b) ==
    /\ Len(a) = Len(b)
    /\ \A t \in Tracks :
         Cardinality({i \in 1..Len(a) : a[i] = t})
             = Cardinality({i \in 1..Len(b) : b[i] = t})

\* What C5 says of the window w a shuffle returns.
ShuffledAndPlaying(w) ==
    /\ SameTracks(songs, w.songs)
    /\ w.current_song_index = 0
    /\ w.media_player.playing
    /\ w.media_player.source = w.songs[1]
    /\ ~w.is_paused
    /\ w.played_first_song

selectTrack(index, loads) ==
    IF variant = "main"
    THEN playSong([Win EXCEPT !.current_song_index = index],
                  songs[index + 1], loads)
    ELSE play_song([Win EXCEPT !.current_song_index = index],
                   songs[index + 1], loads)

\* C6: on a pristine session the play/pause toggle returns the window,
\* backend calls included, that selecting track 0 returns, whether the
\* load succeeds or not; when it succeeds that is index 0, songs[0]
\* loaded and playing, not paused, played_first_song set, label "Pause",
\* elapsed display 00:00 and row 0 highlighted.
C6_ToggleOnPristineSelectsFirst ==
    (Running /\ ~played_first_song /\ current_song_index = -1) =>
        /\ \A loads \in BOOLEAN : pauseClicked(loads) = selectTrack(0, loads)
        /\ LET w == pauseClicked(TRUE)
           IN  /\ w.current_song_index = 0
               /\ w.media_player.source = songs[1]
               /\ w.media_player.playing
               /\ ~w.is_paused
               /\ w.played_first_song
               /\ w.pause_button = "Pause"
               /\ w.current_time_label = formatTime(0)
               /\ w.progress_slider.value = 0
               /\ w.highlight = {0}
               /\ Called(w, "load") /\ Called(w, "play")

\* C6 witness: a pristine session on which the user has dragged the
\* slider away from 0, so that the toggle has an elapsed display to reset.
C6_Witness ==
    /\ ~played_first_song
    /\ current_song_index = -1
    /\ progress_slider.value # 0
    /\ Len(songs) >= 2
    /\ pauseClicked(TRUE).progress_slider.value = 0

\* C8: after a play/pause toggle, in each branch, the label is "Pause"
\* exactly when the player reports playing and is_paused is false, and
\* "Resume" exactly when the player is not playing and is_paused is true.
C8_LabelReflectsState ==
    Running =>
        \A loads \in BOOLEAN :
            LET w == pauseClicked(loads)
            IN  /\ (w.pause_button = "Pause")
                       <=> (w.media_player.playing /\ ~w.is_paused)
                /\ (w.pause_button = "Resume")
                       <=> (~w.media_player.playing /\ w.is_paused)

\* C8 witness: the track ended on its own and the user toggles: the
\* player, its source gone, is told to play and the label reads "Pause".
C8_Witness ==
    /\ played_first_song
    /\ media_player.source = NoSource
    /\ ~media_player.playing
    /\ ~is_paused
    /\ pauseClicked(TRUE).pause_button = "Pause"
    /\ pauseClicked(TRUE).media_player.playing

\* C9 as claimed: with current_song_index -1, skip changes none of the
\* index, the flags, the label and the highlight, and makes no load or
\* play call.
C9_SkipOnPristineIsNoOp ==
    [][\A loads \in BOOLEAN :
          (current_song_index = -1 /\ SkipClicked(loads)) =>
              /\ UNCHANGED <<current_song_index, is_paused,
                             played_first_song, pause_button, highlight>>
              /\ ~Called(skipClicked(loads), "load")
              /\ ~Called(skipClicked(loads), "play")]_vars

\* C10 as claimed: on a list of one track with current_song_index 0,
\* skip makes no load or play call, keeps the backend player (and so its
\* elapsed position), is_paused and the index.
C10_SkipOnSingleTrackKeepsPlaying ==
    [][\A loads \in BOOLEAN :
          (Len(songs) = 1 /\ current_song_index = 0 /\ SkipClicked(loads)) =>
              /\ ~Called(skipClicked(loads), "load")
              /\ ~Called(skipClicked(loads), "play")
              /\ ~Called(skipClicked(loads), "Player")
              /\ UNCHANGED <<media_player, is_paused, current_song_index>>]_vars

\* The backend is playing this track.
NowPlaying(song) ==
    /\ media_player.playing
    /\ media_player.source = song
    /\ ~media_player.eos

\* The track at (current_song_index + 1) mod len(songs).
NextInList == songs[((current_song_index + 1) % Len(songs)) + 1]

\* C7 as claimed: once a started track has run out with is_paused false,
\* the session comes to play the track at (current_song_index + 1) mod
\* len(songs); and no state with a track started, is_paused false and the
\* backend stopped lasts forever.  For lists of every length.
C7_EndedTrackAdvances ==
    /\ \A song \in UNION {{l[i] : i \in 1..Len(l)} : l \in InitialLists} :
         (media_player.eos /\ ~is_paused /\ NextInList = song)
             ~> NowPlaying(song)
    /\ Stopped ~> ~Stopped

\* The window after n presses of Skip in a row on the window w, every
\* load succeeding.
RECURSIVE Skips(_, _)
Skips(w, n) ==
    IF n = 0 THEN w
    ELSE LET a == Skips(w, n - 1)
         IN  IF variant = "main" THEN playNextSong(a, TRUE)
             ELSE skip_song(a, TRUE)

\* C11: with every load succeeding, one skip moves a selected index i to
\* (i + 1) mod N, raising nothing, and N skips in a row from index 0 end
\* at index 0 after passing 1, 2, ... in turn; on one track the index is
\* 0 after every skip.
C11_SkipCycles ==
    (Running /\ current_song_index # -1) =>
        LET N == Len(songs)
        IN  /\ skipClicked(TRUE).current_song_index
                   = (current_song_index + 1) % N
            /\ skipClicked(TRUE).raised = "none"
            /\ current_song_index = 0 =>
                  /\ \A k \in 0..N :
                        Skips(Win, k).current_song_index = k % N
                  /\ Skips(Win, N).current_song_index = 0

\* C11 witness: a list of two or more tracks with the first one selected
\* and playing, from which one skip selects the second and Len(songs)
\* skips come back to the first.
C11_Witness ==
    /\ Running
    /\ Len(songs) >= 2
    /\ current_song_index = 0
    /\ media_player.playing
    /\ Skips(Win, 1).current_song_index = 1
    /\ Skips(Win, Len(songs)).current_song_index = 0
    /\ Skips(Win, Len(songs)).media_player.source = songs[1]

\* C12 as claimed: a click on the row at position i, on the listing order
\* or a shuffled one, with the file loading, leaves current_song_index i
\* and the backend playing songs[i], the one file it loaded; rows that
\* show the same name are no exception.
C12_ClickPlaysClickedRow ==
    [][\A row \in Rows :
          SongClicked(row, TRUE) =>
              /\ current_song_index' = row
              /\ media_player'.source = songs[row + 1]
              /\ media_player'.playing
              /\ \A i \in 1..Len(itemClicked(row, TRUE).cmds) :
                    itemClicked(row, TRUE).cmds[i][1] = "load" =>
                        itemClicked(row, TRUE).cmds[i][2] = songs[row + 1]]_vars

\* The name ends in .mp3 or .wav, letter case apart.
IsAudioName(f) ==
    /\ Len(f) >= 4
    /\ str_lower(SubSeq(f, Len(f) - 3, Len(f)))
           \in {<<".", "m", "p", "3">>, <<".", "w", "a", "v">>}

\* The entries with such a name, in listing order, each as the path
\* made of the directory's components and the entry.
RECURSIVE AudioPaths(_, _)
AudioPaths(dir, entries) ==
    IF entries = <<>> THEN <<>>
    ELSE (IF IsAudioName(Head(entries)) THEN <<dir \o <<Head(entries)>>>>
          ELSE <<>>) \o AudioPaths(dir, Tail(entries))

\* The directory the scan reads.
ScannedDirectory ==
    IF variant = "main"
    THEN (IF scan.argument = <<>> THEN <<"/", "home", "Music">>
          ELSE scan.argument) \o <<"YtSongs">>
    ELSE IF scan.argument[1] = "/" THEN scan.argument
         ELSE <<"/", "home", "Music", "YtSongs">> \o scan.argument

\* C13: a scan of an existing directory returns, in listing order, the
\* entries whose name ends in .mp3 or .wav whatever the letter case, each
\* joined to the scanned directory; a scan of a directory that does not
\* exist returns the empty list and raises nothing.
C13_ScanFiltersByExtension ==
    scan.phase = "scanned" =>
        /\ scan.disk.kind = "directory" =>
              /\ scan.raised = "none"
              /\ scan.songs = AudioPaths(ScannedDirectory, scan.disk.entries)
        /\ scan.disk.kind = "absent" =>
              /\ scan.raised = "none"
              /\ scan.songs = <<>>

\* C13 witness: a scanned directory that holds an upper-case audio name
\* and a name that is not audio, of which the scan kept one entry.
C13_Witness ==
    /\ scan.phase = "scanned"
    /\ scan.disk.kind = "directory"
    /\ \E i \in 1..Len(scan.disk.entries) :
         /\ scan.disk.entries[i] # str_lower(scan.disk.entries[i])
         /\ IsAudioName(scan.disk.entries[i])
    /\ \E i \in 1..Len(scan.disk.entries) : ~IsAudioName(scan.disk.entries[i])
    /\ Len(scan.songs) = 1

\* C14 as claimed: a tick on a session the user has paused, or on a
\* pristine one, keeps current_song_index and does not replace the
\* backend player.
C14_TickLeavesPausedSessionAlone ==
    [][\A loads \in BOOLEAN :
          ((is_paused \/ current_song_index = -1) /\ Tick(loads)) =>
              /\ current_song_index' = current_song_index
              /\ ~Called(timeout(loads), "Player")]_vars

\* C15 as claimed: in every state the backend player's volume is the
\* volume slider's value / 100 (both kept in percent here), so a chosen
\* volume outlives every replacement of the player.
C15_VolumeFollowsSlider ==
    Running => media_player.volume = volume_slider

\* C16 as claimed: whenever a track is selected, exactly one row is
\* highlighted, it is the row at current_song_index, and it shows the
\* track the backend player has loaded.
C16_HighlightIsCurrentTrack ==
    (Running /\ current_song_index # -1) =>
        /\ highlight = {current_song_index}
        /\ media_player.source = songs[current_song_index + 1]
        /\ song_list[current_song_index + 1] = DisplayName(media_player.source)

====
